---------------------------- MODULE Spec2Model ----------------------------
(***************************************************************************)
(* Model of vulkano's instance::debug module (src/instance/debug.rs):      *)
(* registration of a debug-utils messenger callback (DebugCallback::new),  *)
(* the extern "system" trampoline the driver calls, the flag encoding and  *)
(* decoding of MessageSeverity / MessageType, and Drop for DebugCallback.  *)
(*                                                                         *)
(* The driver (the two native entry points and the threads that call the   *)
(* trampoline) is the environment; the application threads that call new,  *)
(* move the DebugCallback and drop it are the other processes.             *)
(***************************************************************************)
EXTENDS Integers, FiniteSets, Sequences, Bags

\* ------------------------------------------------------------------ bounds

\* Number of DebugCallback::new calls (registration slots) in a behaviour.
MaxRegs == 2

\* Number of driver threads, each of which may be inside the trampoline.
MaxDriverThreads == 2

Regs == 1..MaxRegs

\* Addresses the allocator hands out for the outer Box: one per live box.
Addrs == 1..MaxRegs

\* ------------------------------------------------- native constants (vk::)

DEBUG_UTILS_MESSAGE_SEVERITY_VERBOSE_BIT_EXT == 1

DEBUG_UTILS_MESSAGE_SEVERITY_INFO_BIT_EXT == 16

DEBUG_UTILS_MESSAGE_SEVERITY_WARNING_BIT_EXT == 256

DEBUG_UTILS_MESSAGE_SEVERITY_ERROR_BIT_EXT == 4096

DEBUG_UTILS_MESSAGE_TYPE_GENERAL_BIT_EXT == 1

DEBUG_UTILS_MESSAGE_TYPE_VALIDATION_BIT_EXT == 2

DEBUG_UTILS_MESSAGE_TYPE_PERFORMANCE_BIT_EXT == 4

\* vk::FALSE, the Bool32 the trampoline returns.
VK_FALSE == 0

\* ------------------------------------------------------- bit operations

RECURSIVE BitAnd(_, _)
\* a & b on non-negative integers.
BitAnd(a, b) ==
    IF a = 0 \/ b = 0 THEN 0
    ELSE (a % 2) * (b % 2) + 2 * BitAnd(a \div 2, b \div 2)

RECURSIVE BitOr(_, _)
\* a | b on non-negative integers (an OR of u32 values cannot overflow).
BitOr(a, b) ==
    IF a = 0 THEN b
    ELSE IF b = 0 THEN a
    ELSE (IF a % 2 = 1 \/ b % 2 = 1 THEN 1 ELSE 0)
         + 2 * BitOr(a \div 2, b \div 2)

\* ------------------------------------------------- flag sets and the codec

\* struct MessageSeverity: four independent booleans.
MessageSeverity == [error : BOOLEAN, warning : BOOLEAN,
                    information : BOOLEAN, verbose : BOOLEAN]

\* struct MessageType: three independent booleans.
MessageType == [general : BOOLEAN, validation : BOOLEAN, performance : BOOLEAN]

\* MessageSeverity::none()
SeverityNone ==
    [error |-> FALSE, warning |-> FALSE, information |-> FALSE, verbose |-> FALSE]

\* MessageSeverity::errors_and_warnings()
SeverityErrorsAndWarnings ==
    [SeverityNone EXCEPT !.error = TRUE, !.warning = TRUE]

\* MessageSeverity::errors()
SeverityErrors == [SeverityNone EXCEPT !.error = TRUE]

\* MessageType::general()
TypeGeneral ==
    [general |-> TRUE, validation |-> FALSE, performance |-> FALSE]

\* MessageType::all()
TypeAll ==
    [general |-> TRUE, validation |-> TRUE, performance |-> TRUE]

\* MessageType::none()
TypeNone ==
    [general |-> FALSE, validation |-> FALSE, performance |-> FALSE]

\* A plausible slip: the warning field ORs in the error bit.
EncodeSeverity_WarningAsError(s) ==
    LET f0 == 0
        f1 == IF s.information
              THEN BitOr(f0, DEBUG_UTILS_MESSAGE_SEVERITY_INFO_BIT_EXT) ELSE f0
        f2 == IF s.warning
              THEN BitOr(f1, DEBUG_UTILS_MESSAGE_SEVERITY_ERROR_BIT_EXT) ELSE f1
        f3 == IF s.error
              THEN BitOr(f2, DEBUG_UTILS_MESSAGE_SEVERITY_ERROR_BIT_EXT) ELSE f2
        f4 == IF s.verbose
              THEN BitOr(f3, DEBUG_UTILS_MESSAGE_SEVERITY_VERBOSE_BIT_EXT) ELSE f3
    IN  f4

\* The severity fold of DebugCallback::new: flags starts at 0 and each true
\* field ORs in its bit, in the order information, warning, error, verbose.
EncodeSeverity(s) ==
    LET f0 == 0
        f1 == IF s.information
              THEN BitOr(f0, DEBUG_UTILS_MESSAGE_SEVERITY_INFO_BIT_EXT) ELSE f0
        f2 == IF s.warning
              THEN BitOr(f1, DEBUG_UTILS_MESSAGE_SEVERITY_WARNING_BIT_EXT) ELSE f1
        f3 == IF s.error
              THEN BitOr(f2, DEBUG_UTILS_MESSAGE_SEVERITY_ERROR_BIT_EXT) ELSE f2
        f4 == IF s.verbose
              THEN BitOr(f3, DEBUG_UTILS_MESSAGE_SEVERITY_VERBOSE_BIT_EXT) ELSE f3
    IN  f4

\* A plausible slip: the validation field ORs in the performance bit.
EncodeType_ValidationAsPerformance(t) ==
    LET f0 == 0
        f1 == IF t.general
              THEN BitOr(f0, DEBUG_UTILS_MESSAGE_TYPE_GENERAL_BIT_EXT) ELSE f0
        f2 == IF t.validation
              THEN BitOr(f1, DEBUG_UTILS_MESSAGE_TYPE_PERFORMANCE_BIT_EXT) ELSE f1
        f3 == IF t.performance
              THEN BitOr(f2, DEBUG_UTILS_MESSAGE_TYPE_PERFORMANCE_BIT_EXT) ELSE f2
    IN  f3

\* The type fold of DebugCallback::new, in the order general, validation,
\* performance.
EncodeType(t) ==
    LET f0 == 0
        f1 == IF t.general
              THEN BitOr(f0, DEBUG_UTILS_MESSAGE_TYPE_GENERAL_BIT_EXT) ELSE f0
        f2 == IF t.validation
              THEN BitOr(f1, DEBUG_UTILS_MESSAGE_TYPE_VALIDATION_BIT_EXT) ELSE f1
        f3 == IF t.performance
              THEN BitOr(f2, DEBUG_UTILS_MESSAGE_TYPE_PERFORMANCE_BIT_EXT) ELSE f2
    IN  f3

\* A plausible slip: the verbose test is written == 0.
DecodeSeverity_VerboseInverted(bits) ==
    [information |-> BitAnd(bits, DEBUG_UTILS_MESSAGE_SEVERITY_INFO_BIT_EXT) # 0,
     warning     |-> BitAnd(bits, DEBUG_UTILS_MESSAGE_SEVERITY_WARNING_BIT_EXT) # 0,
     error       |-> BitAnd(bits, DEBUG_UTILS_MESSAGE_SEVERITY_ERROR_BIT_EXT) # 0,
     verbose     |-> BitAnd(bits, DEBUG_UTILS_MESSAGE_SEVERITY_VERBOSE_BIT_EXT) = 0]

\* A plausible slip: the mask is compared with each constant, not tested.
DecodeType_Exact(bits) ==
    [general     |-> bits = DEBUG_UTILS_MESSAGE_TYPE_GENERAL_BIT_EXT,
     validation  |-> bits = DEBUG_UTILS_MESSAGE_TYPE_VALIDATION_BIT_EXT,
     performance |-> bits = DEBUG_UTILS_MESSAGE_TYPE_PERFORMANCE_BIT_EXT]

\* A plausible slip: the warning field is tested against the error bit.
DecodeSeverity_WarningFromError(bits) ==
    [information |-> BitAnd(bits, DEBUG_UTILS_MESSAGE_SEVERITY_INFO_BIT_EXT) # 0,
     warning     |-> BitAnd(bits, DEBUG_UTILS_MESSAGE_SEVERITY_ERROR_BIT_EXT) # 0,
     error       |-> BitAnd(bits, DEBUG_UTILS_MESSAGE_SEVERITY_ERROR_BIT_EXT) # 0,
     verbose     |-> BitAnd(bits, DEBUG_UTILS_MESSAGE_SEVERITY_VERBOSE_BIT_EXT) # 0]

\* The per-bit tests of the trampoline that build Message.severity.
DecodeSeverity(bits) ==
    [information |-> BitAnd(bits, DEBUG_UTILS_MESSAGE_SEVERITY_INFO_BIT_EXT) # 0,
     warning     |-> BitAnd(bits, DEBUG_UTILS_MESSAGE_SEVERITY_WARNING_BIT_EXT) # 0,
     error       |-> BitAnd(bits, DEBUG_UTILS_MESSAGE_SEVERITY_ERROR_BIT_EXT) # 0,
     verbose     |-> BitAnd(bits, DEBUG_UTILS_MESSAGE_SEVERITY_VERBOSE_BIT_EXT) # 0]

\* The per-bit tests of the trampoline that build Message.ty.
DecodeType(bits) ==
    [general     |-> BitAnd(bits, DEBUG_UTILS_MESSAGE_TYPE_GENERAL_BIT_EXT) # 0,
     validation  |-> BitAnd(bits, DEBUG_UTILS_MESSAGE_TYPE_VALIDATION_BIT_EXT) # 0,
     performance |-> BitAnd(bits, DEBUG_UTILS_MESSAGE_TYPE_PERFORMANCE_BIT_EXT) # 0]


RECURSIVE MaskOf(_)
\* The bitmask with exactly the bits of the set S of distinct powers of two.
MaskOf(S) ==
    IF S = {} THEN 0
    ELSE LET b == CHOOSE x \in S : TRUE IN b + MaskOf(S \ {b})

\* The severity bitmasks the driver may pass (vk::Flags, a u32): every
\* combination of the four named bits, one bit between them that no constant
\* names, and a high bit.
SeverityMasks == {MaskOf(S) : S \in SUBSET {1, 2, 16, 256, 4096, 1073741824}}

\* The type bitmasks the driver may pass: every combination of the three
\* named bits, the next bit, and a high bit.
TypeMasks == {MaskOf(S) : S \in SUBSET {1, 2, 4, 8, 1073741824}}

\* ------------------------------------------------------- callback payloads

RECURSIVE Utf8Valid(_)
\* CStr::to_str(): whether a byte string (without its terminating NUL) is
\* well-formed UTF-8.
Utf8Valid(bytes) ==
    LET n == Len(bytes)
        Cont(i) == i <= n /\ bytes[i] >= 128 /\ bytes[i] <= 191
        Rest(k) == Utf8Valid(SubSeq(bytes, k, n))
    IN  IF n = 0 THEN TRUE
        ELSE LET b == bytes[1]
             IN  IF b < 128 THEN Rest(2)
                 ELSE IF b >= 194 /\ b <= 223 THEN Cont(2) /\ Rest(3)
                 ELSE IF b >= 224 /\ b <= 239
                 THEN /\ Cont(2) /\ Cont(3)
                      /\ (b = 224 => bytes[2] >= 160)
                      /\ (b = 237 => bytes[2] <= 159)
                      /\ Rest(4)
                 ELSE IF b >= 240 /\ b <= 244
                 THEN /\ Cont(2) /\ Cont(3) /\ Cont(4)
                      /\ (b = 240 => bytes[2] >= 144)
                      /\ (b = 244 => bytes[2] <= 143)
                      /\ Rest(5)
                 ELSE FALSE

\* What the driver passes to one trampoline call: the two bitmasks and the
\* two C strings of DebugUtilsMessengerCallbackDataEXT.
EvWarningGeneral ==
    [severity |-> DEBUG_UTILS_MESSAGE_SEVERITY_WARNING_BIT_EXT,
     ty |-> DEBUG_UTILS_MESSAGE_TYPE_GENERAL_BIT_EXT,
     pMessageIdName |-> <<86>>, pMessage |-> <<111, 107>>]

\* Error and verbose bits with a bit no constant names; validation and
\* performance with a bit no constant names; a two-byte character in the text.
EvUnknownBits ==
    [severity |-> 4096 + 1 + 2, ty |-> 2 + 4 + 8,
     pMessageIdName |-> <<76>>, pMessage |-> <<195, 169>>]

\* pMessage is not UTF-8.
EvBadMessage ==
    [severity |-> DEBUG_UTILS_MESSAGE_SEVERITY_ERROR_BIT_EXT,
     ty |-> DEBUG_UTILS_MESSAGE_TYPE_VALIDATION_BIT_EXT,
     pMessageIdName |-> <<86>>, pMessage |-> <<255>>]

\* pMessageIdName is not UTF-8 (a lead byte with no continuation).
EvBadIdName ==
    [severity |-> DEBUG_UTILS_MESSAGE_SEVERITY_ERROR_BIT_EXT,
     ty |-> DEBUG_UTILS_MESSAGE_TYPE_VALIDATION_BIT_EXT,
     pMessageIdName |-> <<195>>, pMessage |-> <<111, 107>>]

\* Every known bit of both masks.
EvAllKnown ==
    [severity |-> 4096 + 256 + 16 + 1, ty |-> 4 + 2 + 1,
     pMessageIdName |-> <<86>>, pMessage |-> <<111, 107>>]

\* Both masks zero.
EvNoBits ==
    [severity |-> 0, ty |-> 0, pMessageIdName |-> <<>>, pMessage |-> <<>>]

Events ==
    {EvWarningGeneral, EvUnknownBits, EvBadMessage, EvBadIdName, EvAllKnown, EvNoBits}

\* The payloads the driver sends while registrations come and go: one that
\* reaches the closure and one that does not.
LifecycleEvents == {EvWarningGeneral, EvBadMessage}

\* The closure types the application may try to pass, by the auto traits they
\* have: a Sync one (such as |_| {}), one that is Send but not Sync (it
\* captures a Cell behind AssertUnwindSafe), and one that is not Send.
ClosureSendSync == [send |-> TRUE, sync |-> TRUE, ref_unwind_safe |-> TRUE]

ClosureSendOnly == [send |-> TRUE, sync |-> FALSE, ref_unwind_safe |-> TRUE]

ClosureNotSend == [send |-> FALSE, sync |-> FALSE, ref_unwind_safe |-> TRUE]

\* The arguments of the DebugCallback::new calls the model makes.
NewInputs ==
    { [severity |-> SeverityNone, ty |-> TypeAll, closure |-> ClosureSendSync],
      [severity |-> SeverityErrorsAndWarnings, ty |-> TypeGeneral,
       closure |-> ClosureSendOnly],
      [severity |-> SeverityErrorsAndWarnings, ty |-> TypeGeneral,
       closure |-> ClosureNotSend] }

\* Every configuration a call of new can be given, with the closure of
\* tests::ensure_sendable.
AllInputs ==
    {[severity |-> s, ty |-> t, closure |-> ClosureSendSync] :
        s \in MessageSeverity, t \in MessageType}

\* The closure types of those calls.
Closures == {ClosureSendSync, ClosureSendOnly, ClosureNotSend}

\* The where clause of new: F: Fn(&Message) + 'static + Send + RefUnwindSafe.
\* A call whose closure type does not satisfy it does not compile.
Bounds(f) == f.send /\ f.ref_unwind_safe

\* The instances the application holds; loaded_extensions().ext_debug_utils
\* is true of the first only.
Instances == {"debug_utils_enabled", "debug_utils_missing"}

loaded_extensions(i) == [ext_debug_utils |-> (i = "debug_utils_enabled")]

\* ------------------------------------------------------------------ state

VARIABLES
    reg,         \* per call of new: the DebugCallback it produced, and its fate
    heap,        \* per address: the closure boxed there, or free
    messengers,  \* the driver's live debug-utils messenger objects
    nextHandle,  \* the identifier the driver hands out next
    running,     \* the bag of trampoline calls now inside the closure, one
                 \* per busy driver thread
    lastExit,    \* how the trampoline call that ended last ended
    native,      \* per call of new: its instance argument and the native
                 \* calls made for it
    crashed,     \* the process was aborted
    codec,       \* the flag codec applied to one input
    call         \* per slot: the public constructor the application called
                 \* and the arguments it passed

vars == <<reg, heap, messengers, nextHandle, running, lastExit, native,
          crashed, codec, call>>

\* No DebugCallback: new was not called yet.
NoReg ==
    [state |-> "Unregistered", instance |-> "none", debug_report_callback |-> 0,
     user_callback |-> 0, thread |-> "creator"]

FreeCell == [allocated |-> FALSE, closure |-> 0, sync |-> FALSE]

\* No trampoline call has ended yet.
NoExit ==
    [kind |-> "none", handle |-> 0, args |-> EvNoBits, message |-> <<>>,
     calls |-> 0, panicked |-> FALSE, ret |-> <<>>]

NoNative ==
    [instance |-> "none", creates |-> 0, created |-> 0, destroys |-> 0,
     destroyed |-> 0]

\* No constructor was called for the slot yet.
NoCall ==
    [fn |-> "none", severity |-> SeverityNone, ty |-> TypeNone,
     closure |-> ClosureNotSend]

NoCodec ==
    [phase |-> "off", severity |-> SeverityNone, ty |-> TypeNone,
     severityBits |-> 0, tyBits |-> 0,
     outSeverity |-> SeverityNone, outTy |-> TypeNone]

Init ==
    /\ reg = [r \in Regs |-> NoReg]
    /\ heap = [a \in Addrs |-> FreeCell]
    /\ messengers = {}
    /\ nextHandle = 1
    /\ running = EmptyBag
    /\ lastExit = NoExit
    /\ native = [r \in Regs |-> NoNative]
    /\ crashed = FALSE
    /\ codec = NoCodec
    /\ call = [r \in Regs |-> NoCall]

\* Arc::strong_count of an instance: the application's own reference and one
\* per DebugCallback that holds a clone.
StrongCount(i) == 1 + Cardinality({r \in Regs : reg[r].instance = i})

\* Box::new: the allocator returns an address that is not in use.
BoxAddr ==
    CHOOSE a \in Addrs :
        ~heap[a].allocated /\ \A b \in Addrs : b < a => heap[b].allocated

\* ---------------------------------------------------- DebugCallback::new

\* A plausible slip: the extension is never found missing.
ExtensionMissing_Never(i) == FALSE

\* The test that opens new: !instance.loaded_extensions().ext_debug_utils.
ExtensionMissing(i) == ~loaded_extensions(i).ext_debug_utils

\* A plausible slip: the conversion maps the native error to the one variant
\* the error type has.
FromError_ToVariant(err) == "ErrMissingExtension"

\* impl From<Error> for DebugCallbackCreationError, which the ? operator
\* applies to the Err of check_errors: from panics, so new neither returns
\* Ok nor an Err value.
FromError(err) == "PanickedNativeError"

\* The r-th call of DebugCallback::new(instance, severity, ty, user_callback);
\* nativeOk is whether check_errors found the result code of
\* CreateDebugUtilsMessengerEXT to be a success.
New(r, i, in, nativeOk) ==
    /\ ~crashed
    /\ Bounds(in.closure)
    /\ reg[r].state = "Unregistered"
    /\ \A q \in Regs : q < r => reg[q].state # "Unregistered"
    /\ IF ExtensionMissing(i)
       THEN \* return Err(MissingExtension) before anything else
            /\ reg' = [reg EXCEPT ![r].state = "ErrMissingExtension"]
            /\ native' = [native EXCEPT ![r].instance = i]
            /\ UNCHANGED <<heap, messengers, nextHandle>>
       ELSE LET a == BoxAddr
                infos == [handle |-> nextHandle,
                          messageSeverity |-> EncodeSeverity(in.severity),
                          messageType |-> EncodeType(in.ty),
                          pfnUserCallback |-> "callback",
                          pUserData |-> a]
            IN  IF nativeOk
                THEN /\ heap' = [heap EXCEPT ![a] =
                            [allocated |-> TRUE, closure |-> r,
                             sync |-> in.closure.sync]]
                     /\ messengers' = messengers \cup {infos}
                     /\ nextHandle' = nextHandle + 1
                     /\ native' = [native EXCEPT ![r].instance = i,
                                                 ![r].creates = @ + 1,
                                                 ![r].created = nextHandle]
                     /\ reg' = [reg EXCEPT ![r] =
                            [state |-> "Registered", instance |-> i,
                             debug_report_callback |-> nextHandle,
                             user_callback |-> a, thread |-> "creator"]]
                ELSE \* check_errors(..)? converts through From<Error>, which
                     \* panics; unwinding frees the box.
                     /\ reg' = [reg EXCEPT ![r].state = FromError("native_error")]
                     /\ native' = [native EXCEPT ![r].instance = i,
                                                 ![r].creates = @ + 1]
                     /\ UNCHANGED <<heap, messengers, nextHandle>>
    /\ UNCHANGED <<running, lastExit, crashed, codec>>

\* The application calls DebugCallback::new itself.
CallNew(r, i, in, nativeOk) ==
    /\ New(r, i, in, nativeOk)
    /\ call' = [call EXCEPT ![r] =
           [fn |-> "new", severity |-> in.severity, ty |-> in.ty,
            closure |-> in.closure]]

\* A plausible slip: the preset passes MessageSeverity::errors().
ErrorsAndWarnings_ErrorsOnly(r, i, f, nativeOk) ==
    LET in == [severity |-> SeverityErrors, ty |-> TypeGeneral, closure |-> f]
    IN  /\ New(r, i, in, nativeOk)
        /\ call' = [call EXCEPT ![r] =
               [fn |-> "errors_and_warnings", severity |-> in.severity,
                ty |-> in.ty, closure |-> in.closure]]

\* DebugCallback::errors_and_warnings(instance, user_callback): new is called
\* with MessageSeverity::errors_and_warnings() and MessageType::general().
ErrorsAndWarnings(r, i, f, nativeOk) ==
    LET in == [severity |-> SeverityErrorsAndWarnings, ty |-> TypeGeneral,
               closure |-> f]
    IN  /\ New(r, i, in, nativeOk)
        /\ call' = [call EXCEPT ![r] =
               [fn |-> "errors_and_warnings", severity |-> in.severity,
                ty |-> in.ty, closure |-> in.closure]]

\* A plausible slip: the closure is stored in the DebugCallback itself, so
\* moving the DebugCallback moves the closure to another address.
Move_Relocates(r) ==
    /\ ~crashed
    /\ reg[r].state = "Registered"
    /\ \E a \in Addrs : ~heap[a].allocated
    /\ heap' = [heap EXCEPT ![BoxAddr] = heap[reg[r].user_callback],
                            ![reg[r].user_callback] = FreeCell]
    /\ reg' = [reg EXCEPT ![r].thread = IF @ = "creator" THEN "other" ELSE "creator",
                          ![r].user_callback = BoxAddr]
    /\ UNCHANGED <<messengers, nextHandle, running, lastExit, native,
                   crashed, codec, call>>

\* The DebugCallback is moved to another thread (it is Send), as
\* tests::ensure_sendable does with thread::spawn(move || ..).  The move
\* copies the three fields; user_callback is a Box, so what moves is the
\* pointer and the closure stays where Box::new put it.
Move(r) ==
    /\ ~crashed
    /\ reg[r].state = "Registered"
    /\ reg' = [reg EXCEPT ![r].thread = IF @ = "creator" THEN "other" ELSE "creator"]
    /\ UNCHANGED <<heap, messengers, nextHandle, running, lastExit, native,
                   crashed, codec, call>>

\* ------------------------------------------------- impl Drop for DebugCallback

\* The driver's side of DestroyDebugUtilsMessengerEXT(h): the messenger is
\* no longer one the driver calls.
MessengersWithout(h) == {m \in messengers : m.handle # h}

\* The driver's side of DestroyDebugUtilsMessengerEXT(h): the call returns
\* once no call of that messenger's callback is running.
DestroyMayReturn(h) == \A c \in BagToSet(running) : c.handle # h

\* A plausible slip: the null handle is passed.
DestroyHandle_Null(r) == 0

\* A plausible slip: the identifier the driver handed out last is passed.
DestroyHandle_Latest(r) == nextHandle - 1

\* The identifier drop passes to the driver: self.debug_report_callback.
DestroyHandle(r) == reg[r].debug_report_callback

\* A plausible slip: the box is freed before the native call, as a drop that
\* took user_callback out of self first would do.
DropCallDestroy_BoxFirst(r) ==
    /\ ~crashed
    /\ reg[r].state = "Registered"
    /\ native' = [native EXCEPT ![r].destroys = @ + 1,
                                ![r].destroyed = DestroyHandle(r)]
    /\ messengers' = MessengersWithout(DestroyHandle(r))
    /\ heap' = [heap EXCEPT ![reg[r].user_callback] = FreeCell]
    /\ reg' = [reg EXCEPT ![r].state = "Destroying"]
    /\ UNCHANGED <<nextHandle, running, lastExit, crashed, codec, call>>

\* A plausible slip: the instance reference is released before the native
\* call, which then goes through function pointers nothing keeps alive.
DropCallDestroy_InstanceFirst(r) ==
    /\ ~crashed
    /\ reg[r].state = "Registered"
    /\ native' = [native EXCEPT ![r].destroys = @ + 1,
                                ![r].destroyed = DestroyHandle(r)]
    /\ messengers' = MessengersWithout(DestroyHandle(r))
    /\ reg' = [reg EXCEPT ![r].state = "Destroying", ![r].instance = "none"]
    /\ UNCHANGED <<heap, nextHandle, running, lastExit, crashed, codec, call>>

\* Drop::drop: the call of DestroyDebugUtilsMessengerEXT with the stored
\* identifier is issued, through the instance the DebugCallback still holds.
DropCallDestroy(r) ==
    /\ ~crashed
    /\ reg[r].state = "Registered"
    /\ native' = [native EXCEPT ![r].destroys = @ + 1,
                                ![r].destroyed = DestroyHandle(r)]
    /\ messengers' = MessengersWithout(DestroyHandle(r))
    /\ reg' = [reg EXCEPT ![r].state = "Destroying"]
    /\ UNCHANGED <<heap, nextHandle, running, lastExit, crashed, codec, call>>

\* A plausible slip: the identifier is destroyed once more when the fields
\* are dropped, as a handle field with a Drop of its own would do.
DropFields_DestroyAgain(r) ==
    /\ ~crashed
    /\ reg[r].state = "Destroying"
    /\ DestroyMayReturn(native[r].destroyed)
    /\ heap' = [heap EXCEPT ![reg[r].user_callback] = FreeCell]
    /\ reg' = [reg EXCEPT ![r].state = "Destroyed", ![r].instance = "none",
                          ![r].user_callback = 0, ![r].thread = "creator"]
    /\ native' = [native EXCEPT ![r].destroys = @ + 1]
    /\ UNCHANGED <<messengers, nextHandle, running, lastExit, crashed, codec,
                   call>>

\* The destroy call returns, drop returns, and the fields are dropped in
\* declaration order: instance (the Arc is released), debug_report_callback,
\* user_callback (the box is freed).
DropFields(r) ==
    /\ ~crashed
    /\ reg[r].state = "Destroying"
    /\ DestroyMayReturn(native[r].destroyed)
    /\ heap' = [heap EXCEPT ![reg[r].user_callback] = FreeCell]
    /\ reg' = [reg EXCEPT ![r].state = "Destroyed", ![r].instance = "none",
                          ![r].user_callback = 0, ![r].thread = "creator"]
    /\ UNCHANGED <<messengers, nextHandle, running, lastExit, native, crashed,
                   codec, call>>

\* ------------------------------------------------------------ the trampoline

\* A plausible slip: the two conversions are made inside the closure given to
\* catch_unwind, so that their panic is caught like the closure's.
TrampolineEnter_ExpectCaught(m, e, fatal) ==
    /\ ~crashed
    /\ BagCardinality(running) < MaxDriverThreads
    /\ m \in messengers
    /\ IF Utf8Valid(e.pMessageIdName) /\ Utf8Valid(e.pMessage)
       THEN /\ running' = running (+) SetToBag({
                   [handle |-> m.handle, user_data |-> m.pUserData,
                    closure |-> heap[m.pUserData], args |-> e,
                    message |-> [severity |-> DecodeSeverity(e.severity),
                                 ty |-> DecodeType(e.ty),
                                 layer_prefix |-> e.pMessageIdName,
                                 description |-> e.pMessage],
                    calls |-> 1]})
            /\ UNCHANGED lastExit
       ELSE /\ lastExit' = [NoExit EXCEPT !.kind = "returned", !.handle = m.handle,
                                          !.args = e, !.ret = <<VK_FALSE>>]
            /\ UNCHANGED running
    /\ UNCHANGED <<reg, heap, messengers, nextHandle, native, crashed, codec,
                   call>>

\* extern "system" fn callback up to the call of the closure: the driver calls
\* it on an idle thread of its own for a live messenger m with payload e.
\* user_data is read back as the reference to the boxed closure; the two C
\* strings are converted with expect (a panic outside catch_unwind, in an
\* extern "system" function: the process aborts or the panic unwinds into the
\* driver's frames); the Message is built from the decoded bitmasks and the
\* closure is called with it.
TrampolineEnter(m, e, fatal) ==
    /\ ~crashed
    /\ BagCardinality(running) < MaxDriverThreads
    /\ m \in messengers
    /\ IF Utf8Valid(e.pMessageIdName) /\ Utf8Valid(e.pMessage)
       THEN /\ running' = running (+) SetToBag({
                   [handle |-> m.handle, user_data |-> m.pUserData,
                    closure |-> heap[m.pUserData], args |-> e,
                    message |-> [severity |-> DecodeSeverity(e.severity),
                                 ty |-> DecodeType(e.ty),
                                 layer_prefix |-> e.pMessageIdName,
                                 description |-> e.pMessage],
                    calls |-> 1]})
            /\ UNCHANGED <<lastExit, crashed>>
       ELSE /\ lastExit' = [NoExit EXCEPT !.kind = fatal, !.handle = m.handle,
                                          !.args = e]
            /\ crashed' = (fatal = "abort")
            /\ UNCHANGED running
    /\ UNCHANGED <<reg, heap, messengers, nextHandle, native, codec, call>>

\* A plausible slip: the closure is called without catch_unwind, so its panic
\* leaves the trampoline like the expect panics do.
ClosureExit_NoCatch(panics) ==
    IF panics THEN [kind |-> "unwind", ret |-> <<>>]
    ELSE [kind |-> "returned", ret |-> <<VK_FALSE>>]

\* A plausible slip: a caught panic is reported to the driver as VK_TRUE.
ClosureExit_TrueOnPanic(panics) ==
    [kind |-> "returned", ret |-> IF panics THEN <<1>> ELSE <<VK_FALSE>>]

\* let _ = catch_unwind(..); vk::FALSE: the result of the closure call is
\* discarded and the trampoline returns vk::FALSE.
ClosureExit(panics) == [kind |-> "returned", ret |-> <<VK_FALSE>>]

\* A plausible slip: a closure that panicked is taken out of service, its
\* messenger no longer called.
TrampolineReturn_UnregistersOnPanic(c, panics) ==
    /\ ~crashed
    /\ BagIn(c, running)
    /\ running' = running (-) SetToBag({c})
    /\ lastExit' = [kind |-> ClosureExit(panics).kind, handle |-> c.handle,
                    args |-> c.args, message |-> c.message, calls |-> c.calls,
                    panicked |-> panics, ret |-> ClosureExit(panics).ret]
    /\ messengers' = IF panics THEN MessengersWithout(c.handle) ELSE messengers
    /\ UNCHANGED <<reg, heap, nextHandle, native, crashed, codec, call>>

\* The closure called by c returns, or panics; the trampoline call ends.
TrampolineReturn(c, panics) ==
    /\ ~crashed
    /\ BagIn(c, running)
    /\ running' = running (-) SetToBag({c})
    /\ lastExit' = [kind |-> ClosureExit(panics).kind, handle |-> c.handle,
                    args |-> c.args, message |-> c.message, calls |-> c.calls,
                    panicked |-> panics, ret |-> ClosureExit(panics).ret]
    /\ UNCHANGED <<reg, heap, messengers, nextHandle, native, crashed, codec,
                   call>>

\* ------------------------------------------------------- the codec, alone

\* One flag set of each kind is encoded as new does ...
CodecEncode ==
    /\ codec.phase = "input"
    /\ codec' = [codec EXCEPT !.phase = "encoded",
                              !.severityBits = EncodeSeverity(codec.severity),
                              !.tyBits = EncodeType(codec.ty)]
    /\ UNCHANGED <<reg, heap, messengers, nextHandle, running, lastExit, native,
                   crashed, call>>

\* ... and the two bitmasks are decoded as the trampoline does; so are two
\* bitmasks that come from the driver.
CodecDecode ==
    /\ codec.phase \in {"encoded", "bits"}
    /\ codec' = [codec EXCEPT !.phase = IF @ = "encoded" THEN "decoded"
                                        ELSE "bits_decoded",
                              !.outSeverity = DecodeSeverity(codec.severityBits),
                              !.outTy = DecodeType(codec.tyBits)]
    /\ UNCHANGED <<reg, heap, messengers, nextHandle, running, lastExit, native,
                   crashed, call>>

\* ------------------------------------------------------------ specifications

\* Registrations come and go while the driver calls the trampoline.
Next ==
    \/ \E r \in Regs, i \in Instances, in \in NewInputs, ok \in BOOLEAN :
          CallNew(r, i, in, ok)
    \/ \E r \in Regs : Move(r)
    \/ \E r \in Regs : DropCallDestroy(r)
    \/ \E r \in Regs : DropFields(r)
    \/ \E m \in messengers, e \in LifecycleEvents, fatal \in {"abort", "unwind"} :
          TrampolineEnter(m, e, fatal)
    \/ \E c \in BagToSet(running), panics \in BOOLEAN : TrampolineReturn(c, panics)

Spec == Init /\ [][Next]_vars

\* One registration, called by the driver with every payload.
NextTrampoline ==
    \/ \E i \in Instances, in \in NewInputs, ok \in BOOLEAN : CallNew(1, i, in, ok)
    \/ Move(1)
    \/ DropCallDestroy(1)
    \/ DropFields(1)
    \/ \E m \in messengers, e \in Events, fatal \in {"abort", "unwind"} :
          TrampolineEnter(m, e, fatal)
    \/ \E c \in BagToSet(running), panics \in BOOLEAN : TrampolineReturn(c, panics)

SpecTrampoline == Init /\ [][NextTrampoline]_vars

\* One call of new with every configuration, its DebugCallback moved, called
\* and dropped.
NextCreate ==
    \/ \E i \in Instances, in \in AllInputs, ok \in BOOLEAN : CallNew(1, i, in, ok)
    \/ Move(1)
    \/ DropCallDestroy(1)
    \/ DropFields(1)
    \/ \E m \in messengers, fatal \in {"abort", "unwind"} :
          TrampolineEnter(m, EvWarningGeneral, fatal)
    \/ \E c \in BagToSet(running), panics \in BOOLEAN : TrampolineReturn(c, panics)

SpecCreate == Init /\ [][NextCreate]_vars

\* Registrations made through either constructor, moved and dropped.
NextPreset ==
    \/ \E r \in Regs, i \in Instances, in \in NewInputs, ok \in BOOLEAN :
          CallNew(r, i, in, ok)
    \/ \E r \in Regs, i \in Instances, f \in Closures, ok \in BOOLEAN :
          ErrorsAndWarnings(r, i, f, ok)
    \/ \E r \in Regs : Move(r)
    \/ \E r \in Regs : DropCallDestroy(r)
    \/ \E r \in Regs : DropFields(r)

SpecPreset == Init /\ [][NextPreset]_vars

\* The codec applied to every flag set, and the decoding to every bitmask.
InitCodec ==
    /\ reg = [r \in Regs |-> NoReg]
    /\ heap = [a \in Addrs |-> FreeCell]
    /\ messengers = {}
    /\ nextHandle = 1
    /\ running = EmptyBag
    /\ lastExit = NoExit
    /\ native = [r \in Regs |-> NoNative]
    /\ crashed = FALSE
    /\ call = [r \in Regs |-> NoCall]
    /\ \/ \E s \in MessageSeverity, t \in MessageType :
             codec = [NoCodec EXCEPT !.phase = "input", !.severity = s, !.ty = t]
       \/ \E sb \in SeverityMasks, tb \in TypeMasks :
             codec = [NoCodec EXCEPT !.phase = "bits", !.severityBits = sb,
                                     !.tyBits = tb]

NextCodec == CodecEncode \/ CodecDecode

SpecCodec == InitCodec /\ [][NextCodec]_vars

\* ------------------------------------------------------------------ claims

\* The registration slot whose create call returned identifier h.
RegOfHandle(h) == CHOOSE r \in Regs : native[r].created = h

\* Whether new was called with an instance that lacks the extension.
CalledWithoutExtension(r) ==
    native[r].instance # "none" /\ ~loaded_extensions(native[r].instance).ext_debug_utils

\* C1: a call of new on an instance without ext_debug_utils returns
\* Err(MissingExtension) and makes no native call: no create call, no destroy
\* call, no instance reference kept, no box and no messenger made for it, and
\* no trampoline call ever runs its closure.
Thm_C1 ==
    \A r \in Regs :
        CalledWithoutExtension(r) =>
            /\ reg[r].state = "ErrMissingExtension"
            /\ native[r].creates = 0 /\ native[r].destroys = 0
            /\ reg[r].instance = "none"
            /\ StrongCount(native[r].instance) = 1
            /\ \A a \in Addrs : heap[a].closure # r
            /\ \A c \in BagToSet(running) : c.closure.closure # r

\* C1's case: a call on the instance without the extension has returned while
\* another call, on the instance with it, has registered a callback.
Wit_C1 ==
    \E r, q \in Regs : CalledWithoutExtension(r) /\ reg[q].state = "Registered"

\* C2: for every DebugCallback that new returned, the native destroy call is
\* issued exactly once, with the identifier its create call returned, and at
\* its drop (not before): none while it is alive, one from the moment drop
\* runs, whichever thread drops it; a call of new that returned no
\* DebugCallback never leads to one.
Thm_C2 ==
    \A r \in Regs :
        /\ reg[r].state \in {"Unregistered", "ErrMissingExtension",
                             "PanickedNativeError", "Registered"}
              => native[r].destroys = 0
        /\ reg[r].state \in {"Destroying", "Destroyed"}
              => /\ native[r].destroys = 1
                 /\ native[r].created # 0
                 /\ native[r].destroyed = native[r].created

\* C2's case: a DebugCallback made on one thread is being dropped on another,
\* after its closure was called.
Wit_C2 ==
    \E r \in Regs :
        /\ reg[r].state = "Destroying" /\ reg[r].thread = "other"
        /\ lastExit.kind = "returned" /\ lastExit.handle = native[r].created

\* C3: a trampoline call that is inside the closure reads closure storage
\* that is still allocated and still holds the closure of its own
\* registration, whose destroy call has not returned.
Thm_C3 ==
    \A c \in BagToSet(running) :
        /\ heap[c.user_data].allocated
        /\ heap[c.user_data] = c.closure
        /\ c.closure.closure = RegOfHandle(c.handle)
        /\ reg[RegOfHandle(c.handle)].state \in {"Registered", "Destroying"}
        /\ reg[RegOfHandle(c.handle)].user_callback = c.user_data

\* C3's case: the destroy call of a registration has been issued while a
\* trampoline call of that registration is still inside the closure.
Wit_C3 ==
    \E c \in BagToSet(running) :
        reg[RegOfHandle(c.handle)].state = "Destroying"

\* Whether the DebugCallback of slot r holds its fields: the instance
\* reference and the allocated box with its closure.
HoldsFields(r) ==
    /\ reg[r].instance = native[r].instance
    /\ StrongCount(reg[r].instance) >= 2
    /\ reg[r].user_callback \in Addrs
    /\ heap[reg[r].user_callback].allocated
    /\ heap[reg[r].user_callback].closure = r

\* C4: destruction order.  Before the native destroy call and while it is in
\* progress the DebugCallback holds its instance reference and its box is
\* allocated; the reference is released and the box freed only once the call
\* has been made.
Thm_C4 ==
    \A r \in Regs :
        /\ reg[r].state \in {"Registered", "Destroying"} => HoldsFields(r)
        /\ reg[r].state = "Destroying" => native[r].destroys = 1
        /\ reg[r].state = "Destroyed"
              => /\ native[r].destroys = 1
                 /\ reg[r].instance = "none"
                 /\ reg[r].user_callback = 0
                 /\ \A a \in Addrs : heap[a].closure # r

\* C4's case: one DebugCallback has been dropped completely and another is in
\* the middle of its drop, the destroy call issued.
Wit_C4 ==
    \E r, q \in Regs : reg[r].state = "Destroyed" /\ reg[q].state = "Destroying"

\* C5: fault isolation.  A trampoline call whose closure panicked ended by
\* returning vk::FALSE (the panic did not leave the trampoline), called the
\* closure once, and left the registration callable: while the messenger is
\* live, the driver can call the trampoline again and reach the same closure.
Thm_C5 ==
    lastExit.panicked =>
        /\ lastExit.kind = "returned"
        /\ lastExit.ret = <<VK_FALSE>>
        /\ lastExit.calls = 1
        /\ \A m \in messengers :
              (m.handle = lastExit.handle /\ ~crashed
               /\ BagCardinality(running) < MaxDriverThreads)
              => ENABLED (/\ TrampolineEnter(m, EvWarningGeneral, "unwind")
                          /\ \E c \in BagToSet(running') :
                                /\ c.handle = m.handle
                                /\ c.closure.closure = RegOfHandle(m.handle))

\* C5's case: the closure of a registration panicked, the registration is
\* still registered, and its closure is being called again.
Wit_C5 ==
    /\ lastExit.panicked
    /\ reg[RegOfHandle(lastExit.handle)].state = "Registered"
    /\ \E c \in BagToSet(running) : c.handle = lastExit.handle

\* The trampoline calls that ended without returning to the driver did so on
\* one of the payloads whose text is not UTF-8.
BadTextEvents == {EvBadMessage, EvBadIdName}

\* C6 as stated: every trampoline call that ended returned vk::FALSE, whatever
\* the bitmasks and the payload, the closure called or not.
Orig_C6 == lastExit.kind # "none" => lastExit.ret = <<VK_FALSE>>

\* C6 as amended: a trampoline call whose two text buffers are UTF-8 ends by
\* returning vk::FALSE, whatever the bitmasks and whether the closure
\* returned or panicked, and there is no call that returns without having
\* called the closure; a call with a text buffer that is not UTF-8 ends by
\* panicking before the closure is called and returns nothing.
Thm_C6 ==
    /\ lastExit.kind = "returned"
          => /\ lastExit.ret = <<VK_FALSE>>
             /\ lastExit.calls = 1
             /\ lastExit.args \notin BadTextEvents
    /\ lastExit.kind \in {"abort", "unwind"}
          => /\ lastExit.ret = <<>>
             /\ lastExit.calls = 0
             /\ lastExit.args \in BadTextEvents
    /\ \A c \in BagToSet(running) : c.args \notin BadTextEvents

\* C6's case: a call with bits no constant names, whose closure panicked, has
\* returned.
Wit_C6 ==
    /\ lastExit.kind = "returned" /\ lastExit.panicked
    /\ lastExit.args = EvUnknownBits

\* C7 as stated: two trampoline calls of one registration that run at the
\* same time only ever run a closure whose type the bounds of new required to
\* be Sync.
Orig_C7 ==
    \A c \in BagToSet(running) :
        (\/ CopiesIn(c, running) >= 2
         \/ \E c2 \in BagToSet(running) : c2 # c /\ c2.handle = c.handle)
        => c.closure.sync

\* C8: decoding the bitmask that encodes a flag set gives the flag set back,
\* for each of the 16 severity sets and each of the 8 type sets.
Thm_C8 ==
    codec.phase = "decoded"
        => codec.outSeverity = codec.severity /\ codec.outTy = codec.ty

\* C8's case: a set with several true fields of each kind has gone through
\* the encoding and the decoding.
Wit_C8 ==
    /\ codec.phase = "decoded"
    /\ codec.severity = [error |-> TRUE, warning |-> TRUE,
                         information |-> FALSE, verbose |-> TRUE]
    /\ codec.ty = [general |-> TRUE, validation |-> FALSE, performance |-> TRUE]
    /\ codec.severityBits = 4096 + 256 + 1
    /\ codec.tyBits = 4 + 1

\* Bit k (a power of two) of bitmask b, by division.
Bit(b, k) == (b \div k) % 2 = 1

\* The Message a call with bitmasks sev and ty is to deliver.
Delivers(message, sev, ty) ==
    /\ message.severity.error = Bit(sev, DEBUG_UTILS_MESSAGE_SEVERITY_ERROR_BIT_EXT)
    /\ message.severity.warning = Bit(sev, DEBUG_UTILS_MESSAGE_SEVERITY_WARNING_BIT_EXT)
    /\ message.severity.information = Bit(sev, DEBUG_UTILS_MESSAGE_SEVERITY_INFO_BIT_EXT)
    /\ message.severity.verbose = Bit(sev, DEBUG_UTILS_MESSAGE_SEVERITY_VERBOSE_BIT_EXT)
    /\ message.ty.general = Bit(ty, DEBUG_UTILS_MESSAGE_TYPE_GENERAL_BIT_EXT)
    /\ message.ty.validation = Bit(ty, DEBUG_UTILS_MESSAGE_TYPE_VALIDATION_BIT_EXT)
    /\ message.ty.performance = Bit(ty, DEBUG_UTILS_MESSAGE_TYPE_PERFORMANCE_BIT_EXT)
    /\ (/\ sev = DEBUG_UTILS_MESSAGE_SEVERITY_WARNING_BIT_EXT
        /\ ty = DEBUG_UTILS_MESSAGE_TYPE_GENERAL_BIT_EXT)
          => /\ message.severity = [SeverityNone EXCEPT !.warning = TRUE]
             /\ message.ty = TypeGeneral

DropStep(r) ==
    /\ reg[r].state \in {"Registered", "Destroying"}
    /\ reg'[r].state # reg[r].state

\* The messenger the driver holds for the DebugCallback of slot q.
MessengerOf(q) ==
    {m \in messengers : /\ m.handle = reg[q].debug_report_callback
                        /\ m.pUserData = reg[q].user_callback}

\* C10: registrations are destroyed independently.  A step of the drop of one
\* DebugCallback passes the driver that DebugCallback's own identifier and
\* leaves every other one as it was (its fields, its messenger, its box, the
\* native calls made for it); and a DebugCallback that is not being dropped
\* keeps a live messenger and its fields, so its closure stays callable.
Thm_C10 ==
    /\ [](\A q \in Regs :
            reg[q].state = "Registered"
                => /\ MessengerOf(q) # {}
                   /\ HoldsFields(q)
                   /\ native[q].destroys = 0)
    /\ [][\A r \in Regs :
            DropStep(r)
                => /\ native'[r].destroyed = native[r].created
                   /\ \A q \in Regs \ {r} :
                         /\ reg'[q] = reg[q]
                         /\ native'[q] = native[q]
                         /\ reg[q].state = "Registered"
                               => /\ MessengerOf(q) \subseteq messengers'
                                  /\ heap'[reg[q].user_callback]
                                        = heap[reg[q].user_callback]]_vars

\* C10's case: one DebugCallback is destroyed and the closure of the other,
\* still registered, is being called.
Wit_C10 ==
    \E r, q \in Regs :
        /\ r # q
        /\ reg[r].state = "Destroyed" /\ reg[q].state = "Registered"
        /\ \E c \in BagToSet(running) : c.handle = native[q].created

\* What a call of errors_and_warnings on slot r has led to, as a call of new
\* with severity {error, warning} and type {general} does: the arguments new
\* received, the result by the instance's extension, and, while the
\* DebugCallback is registered, the create-info the driver was given.
PresetOutcome(r) ==
    /\ call[r].severity = [error |-> TRUE, warning |-> TRUE,
                           information |-> FALSE, verbose |-> FALSE]
    /\ call[r].ty = [general |-> TRUE, validation |-> FALSE, performance |-> FALSE]
    /\ IF CalledWithoutExtension(r)
       THEN reg[r].state = "ErrMissingExtension" /\ native[r].creates = 0
       ELSE /\ reg[r].state \in {"Registered", "Destroying", "Destroyed",
                                 "PanickedNativeError"}
            /\ native[r].creates = 1
    /\ reg[r].state = "Registered"
          => \E m \in messengers :
                /\ m.handle = reg[r].debug_report_callback
                /\ m.messageSeverity = 4096 + 256
                /\ m.messageType = 1
                /\ m.pUserData = reg[r].user_callback

\* C11: errors_and_warnings(instance, closure) is new(instance, {error,
\* warning}, {general}, closure).  A call of it has the result of that call of
\* new (MissingExtension without the extension, otherwise the create call),
\* the driver is given severity bits error|warning and type bit general, and
\* the step it takes is, the record of which constructor was called apart,
\* the step that call of new takes.
Thm_C11 ==
    /\ [](\A r \in Regs : call[r].fn = "errors_and_warnings" => PresetOutcome(r))
    /\ [][\A r \in Regs :
            (call[r].fn = "none" /\ call'[r].fn = "errors_and_warnings")
                => \E i \in Instances, ok \in BOOLEAN :
                      New(r, i,
                          [severity |-> [error |-> TRUE, warning |-> TRUE,
                                         information |-> FALSE, verbose |-> FALSE],
                           ty |-> [general |-> TRUE, validation |-> FALSE,
                                   performance |-> FALSE],
                           closure |-> call'[r].closure],
                          ok)]_vars

\* C11's case: one DebugCallback was made by errors_and_warnings and another
\* by new with the same sets and the same closure type, and both are
\* registered with the same bits.
Wit_C11 ==
    \E r, q \in Regs :
        /\ call[r].fn = "errors_and_warnings" /\ call[q].fn = "new"
        /\ call[q].severity = call[r].severity /\ call[q].ty = call[r].ty
        /\ call[q].closure = call[r].closure
        /\ reg[r].state = "Registered" /\ reg[q].state = "Registered"
        /\ \E m, n \in messengers :
              /\ m.handle = reg[r].debug_report_callback
              /\ n.handle = reg[q].debug_report_callback
              /\ m.messageSeverity = n.messageSeverity
              /\ m.messageType = n.messageType

\* Whether the create call made for slot r did not succeed.
NativeFailed(r) == native[r].creates = 1 /\ native[r].created = 0

\* C12: MissingExtension is the only error value new returns, and it returns
\* it only for an instance without the extension.  When the extension is
\* enabled and the create call fails, new returns neither Ok nor Err: the
\* error conversion panics, no DebugCallback exists (no identifier, no
\* instance reference, no box, no messenger) and no destroy call follows.
Thm_C12 ==
    \A r \in Regs :
        /\ reg[r].state = "ErrMissingExtension" => CalledWithoutExtension(r)
        /\ NativeFailed(r)
              => /\ reg[r].state = "PanickedNativeError"
                 /\ ~CalledWithoutExtension(r)
                 /\ reg[r].instance = "none"
                 /\ reg[r].debug_report_callback = 0
                 /\ reg[r].user_callback = 0
                 /\ StrongCount(native[r].instance)
                       = 1 + Cardinality({q \in Regs \ {r} :
                                            reg[q].instance = native[r].instance})
                 /\ native[r].destroys = 0
                 /\ \A a \in Addrs : heap[a].closure # r
                 /\ \A m \in messengers : RegOfHandle(m.handle) # r
        /\ reg[r].state = "PanickedNativeError" => NativeFailed(r)

\* C12's case: the create call of one call of new failed, and a later call
\* of new on the same instance registered a callback.
Wit_C12 ==
    \E r, q \in Regs :
        /\ NativeFailed(r) /\ reg[q].state = "Registered"
        /\ native[q].instance = native[r].instance

\* A step taken by the trampoline: a call enters the closure or a call ends.
TrampolineStep == running' # running \/ lastExit' # lastExit

\* The changes of state the lifecycle allows slot r in one step.
LifecycleStep(r) ==
    \/ /\ reg[r].state = "Unregistered" /\ reg'[r].state = "Registered"
       /\ native'[r].creates = 1 /\ native'[r].created # 0
       /\ native'[r].created = reg'[r].debug_report_callback
    \/ /\ reg[r].state = "Unregistered"
       /\ reg'[r].state \in {"ErrMissingExtension", "PanickedNativeError"}
       /\ native'[r].created = 0
    \/ /\ reg[r].state = "Registered" /\ reg'[r].state = "Destroying"
       /\ native'[r].destroys = native[r].destroys + 1
    \/ /\ reg[r].state = "Destroying" /\ reg'[r].state = "Destroyed"

\* C13: the lifecycle.  A slot leaves Unregistered by one call of new, to
\* Registered when the create call succeeded and to a failed state otherwise;
\* a registered one is destroyed by its drop (the destroy call, then the
\* fields), and nothing else changes a slot's state.  A failed call is never
\* registered and never destroyed; a destroy call is made only by the drop of
\* a registered DebugCallback; trampoline calls change no slot; Destroyed and
\* the failed states are final.
Thm_C13 ==
    /\ [][\A r \in Regs :
            /\ reg'[r].state # reg[r].state => LifecycleStep(r)
            /\ native'[r].destroys # native[r].destroys
                  => reg[r].state = "Registered" /\ reg'[r].state = "Destroying"
            /\ reg[r].state \in {"Destroyed", "ErrMissingExtension",
                                 "PanickedNativeError"}
                  => reg'[r] = reg[r] /\ native'[r] = native[r]
            /\ TrampolineStep => reg'[r] = reg[r] /\ native'[r] = native[r]]_vars
    /\ [](\A r \in Regs :
            reg[r].state \in {"ErrMissingExtension", "PanickedNativeError"}
                => native[r].created = 0 /\ native[r].destroys = 0)

\* C13's case: one slot went through the whole lifecycle, its closure called
\* on the way, and the call of new of another failed.
Wit_C13 ==
    \E r, q \in Regs :
        /\ reg[r].state = "Destroyed"
        /\ lastExit.kind = "returned" /\ lastExit.handle = native[r].created
        /\ reg[q].state \in {"ErrMissingExtension", "PanickedNativeError"}

\* Whether the driver holds, for the registered DebugCallback of slot r, the
\* address of the closure storage that DebugCallback owns, and that storage
\* is allocated and holds the closure passed to its call of new.
AddressHeld(r) ==
    /\ \E m \in messengers :
          /\ m.handle = reg[r].debug_report_callback
          /\ m.pUserData = reg[r].user_callback
    /\ \A m \in messengers :
          m.handle = reg[r].debug_report_callback
              => m.pUserData = reg[r].user_callback
    /\ reg[r].user_callback \in Addrs
    /\ heap[reg[r].user_callback].allocated
    /\ heap[reg[r].user_callback].closure = r
    /\ \A q \in Regs \ {r} :
          reg[q].state \in {"Registered", "Destroying"}
              => reg[q].user_callback # reg[r].user_callback

\* C14: stable closure address.  While a DebugCallback is registered, the
\* user-data address the driver holds is the address of the closure storage
\* the DebugCallback owns, which is allocated and shared with no other
\* DebugCallback; and no step between its creation and the end of its drop,
\* a move to another thread included, changes that address or what is
\* stored there.
Thm_C14 ==
    /\ [](\A r \in Regs : reg[r].state = "Registered" => AddressHeld(r))
    /\ [][\A r \in Regs :
            (/\ reg[r].state \in {"Registered", "Destroying"}
             /\ reg'[r].state \in {"Registered", "Destroying"})
                => /\ reg'[r].user_callback = reg[r].user_callback
                   /\ heap'[reg[r].user_callback] = heap[reg[r].user_callback]
                   /\ reg'[r].thread # reg[r].thread
                         => messengers' = messengers /\ heap' = heap]_vars

\* C14's case: a DebugCallback was moved to another thread and the driver
\* calls its closure through the address it was given at creation.
Wit_C14 ==
    \E r \in Regs, c \in BagToSet(running) :
        /\ reg[r].state = "Registered" /\ reg[r].thread = "other"
        /\ c.handle = reg[r].debug_report_callback
        /\ c.user_data = reg[r].user_callback

\* C15: the all-false MessageSeverity and the all-false MessageType encode to
\* the zero bitmask, and the zero bitmask decodes to the all-false set of
\* either kind.
Thm_C15 ==
    /\ codec.phase \in {"encoded", "decoded"}
          => /\ codec.severity = [error |-> FALSE, warning |-> FALSE,
                                  information |-> FALSE, verbose |-> FALSE]
                   => codec.severityBits = 0
             /\ codec.ty = [general |-> FALSE, validation |-> FALSE,
                            performance |-> FALSE]
                   => codec.tyBits = 0
    /\ codec.phase = "bits_decoded"
          => /\ codec.severityBits = 0
                   => codec.outSeverity = [error |-> FALSE, warning |-> FALSE,
                                           information |-> FALSE, verbose |-> FALSE]
             /\ codec.tyBits = 0
                   => codec.outTy = [general |-> FALSE, validation |-> FALSE,
                                     performance |-> FALSE]

\* C15's case: two zero bitmasks from the driver have been decoded.
Wit_C15 ==
    /\ codec.phase = "bits_decoded"
    /\ codec.severityBits = 0 /\ codec.tyBits = 0
    /\ codec.outSeverity = SeverityNone /\ codec.outTy = TypeNone

\* The severity bits that have a constant.
KnownSeverityBits ==
    DEBUG_UTILS_MESSAGE_SEVERITY_ERROR_BIT_EXT
    + DEBUG_UTILS_MESSAGE_SEVERITY_WARNING_BIT_EXT
    + DEBUG_UTILS_MESSAGE_SEVERITY_INFO_BIT_EXT
    + DEBUG_UTILS_MESSAGE_SEVERITY_VERBOSE_BIT_EXT

\* The type bits that have a constant.
KnownTypeBits ==
    DEBUG_UTILS_MESSAGE_TYPE_GENERAL_BIT_EXT
    + DEBUG_UTILS_MESSAGE_TYPE_VALIDATION_BIT_EXT
    + DEBUG_UTILS_MESSAGE_TYPE_PERFORMANCE_BIT_EXT

\* C17: decoding ignores the bits no constant names.  Every bitmask decodes,
\* to the flag set that the bitmask restricted to the named bits decodes to,
\* and each field of that set is the state of its own bit.
Thm_C17 ==
    codec.phase = "bits_decoded"
        => /\ codec.outSeverity \in MessageSeverity
           /\ codec.outTy \in MessageType
           /\ codec.outSeverity
                 = DecodeSeverity(BitAnd(codec.severityBits, KnownSeverityBits))
           /\ codec.outTy = DecodeType(BitAnd(codec.tyBits, KnownTypeBits))
           /\ Delivers([severity |-> codec.outSeverity, ty |-> codec.outTy],
                       codec.severityBits, codec.tyBits)

\* C17's case: bitmasks with named bits, a high bit and another bit no
\* constant names have been decoded.
Wit_C17 ==
    /\ codec.phase = "bits_decoded"
    /\ codec.severityBits = 1073741824 + 4096 + 2
    /\ codec.tyBits = 1073741824 + 8 + 1
    /\ codec.outSeverity = SeverityErrors
    /\ codec.outTy = TypeGeneral

\* The bitmask of a severity set: the sum of the constants of its true fields.
SeverityBitsOf(sv) ==
    (IF sv.error THEN DEBUG_UTILS_MESSAGE_SEVERITY_ERROR_BIT_EXT ELSE 0)
    + (IF sv.warning THEN DEBUG_UTILS_MESSAGE_SEVERITY_WARNING_BIT_EXT ELSE 0)
    + (IF sv.information THEN DEBUG_UTILS_MESSAGE_SEVERITY_INFO_BIT_EXT ELSE 0)
    + (IF sv.verbose THEN DEBUG_UTILS_MESSAGE_SEVERITY_VERBOSE_BIT_EXT ELSE 0)

\* The bitmask of a type set: the sum of the constants of its true fields.
TypeBitsOf(t) ==
    (IF t.general THEN DEBUG_UTILS_MESSAGE_TYPE_GENERAL_BIT_EXT ELSE 0)
    + (IF t.validation THEN DEBUG_UTILS_MESSAGE_TYPE_VALIDATION_BIT_EXT ELSE 0)
    + (IF t.performance THEN DEBUG_UTILS_MESSAGE_TYPE_PERFORMANCE_BIT_EXT ELSE 0)

\* The create-info a successful call of new on slot r is to have passed.
CreateInfoOf(r) ==
    [handle |-> native[r].created,
     messageSeverity |-> SeverityBitsOf(call[r].severity),
     messageType |-> TypeBitsOf(call[r].ty),
     pfnUserCallback |-> "callback",
     pUserData |-> reg[r].user_callback]

\* C16: a successful call of new made one create call, whose create-info
\* carries the encodings of the severity and type arguments, the trampoline
\* and the address of the closure storage; the DebugCallback holds the
\* identifier that call returned and one more reference to the instance
\* argument; and the call succeeds for every one of the 16 x 8
\* configurations, the all-false ones included, when the extension is
\* enabled and the create call succeeds.
Thm_C16 ==
    /\ [](\A r \in Regs :
            reg[r].state = "Registered"
                => /\ native[r].creates = 1
                   /\ reg[r].debug_report_callback = native[r].created
                   /\ native[r].created # 0
                   /\ {m \in messengers : m.handle = native[r].created}
                         = {CreateInfoOf(r)}
                   /\ heap[reg[r].user_callback].allocated
                   /\ heap[reg[r].user_callback].closure = r
                   /\ reg[r].instance = native[r].instance)
    /\ [][\A r \in Regs :
            /\ (reg[r].state = "Unregistered" /\ reg'[r].state = "Registered")
                  => /\ \A i \in Instances :
                           i = native'[r].instance
                               => StrongCount(i)' = StrongCount(i) + 1
                     /\ Cardinality(messengers') = Cardinality(messengers) + 1
                     /\ native[r].creates = 0
            /\ (/\ reg[r].state = "Unregistered"
                /\ call'[r].fn = "new"
                /\ loaded_extensions(native'[r].instance).ext_debug_utils
                /\ native'[r].created # 0)
                  => reg'[r].state = "Registered"]_vars
    /\ [](\A in \in AllInputs :
            (reg[1].state = "Unregistered" /\ ~crashed)
                => ENABLED (/\ CallNew(1, "debug_utils_enabled", in, TRUE)
                            /\ reg'[1].state = "Registered"))

\* C16's case: the call of tests::ensure_sendable (no severity, every type)
\* succeeded, and the DebugCallback was moved to another thread.
Wit_C16 ==
    /\ reg[1].state = "Registered" /\ reg[1].thread = "other"
    /\ call[1].severity = SeverityNone /\ call[1].ty = TypeAll
    /\ CreateInfoOf(1) \in messengers
    /\ CreateInfoOf(1).messageSeverity = 0
    /\ CreateInfoOf(1).messageType = 4 + 2 + 1
    /\ StrongCount(reg[1].instance) = 2

\* C18: a trampoline call with a text buffer that is not UTF-8 ends by the
\* panic of expect, before the Message is built: it never calls the closure,
\* no Message exists for it, it returns no status (the panic is not caught by
\* the catch_unwind around the closure call, and when it aborts the process
\* is gone), and every Message a closure is called with carries UTF-8 text.
Thm_C18 ==
    /\ lastExit.args \in BadTextEvents
          => /\ lastExit.kind \in {"abort", "unwind"}
             /\ lastExit.calls = 0
             /\ lastExit.message = <<>>
             /\ ~lastExit.panicked
             /\ lastExit.ret # <<VK_FALSE>>
    /\ lastExit.kind = "abort" <=> crashed
    /\ \A c \in BagToSet(running) :
          /\ c.args \notin BadTextEvents
          /\ c.message.layer_prefix \notin {<<195>>, <<255>>}
          /\ c.message.description \notin {<<195>>, <<255>>}

\* C18's case: a call whose message-id name is not UTF-8 ended by unwinding
\* out of the trampoline while another call was inside the closure.
Wit_C18 ==
    /\ lastExit.args = EvBadIdName /\ lastExit.kind = "unwind"
    /\ lastExit.calls = 0
    /\ running # EmptyBag

\* C19: a trampoline call changes no registration state.  A step by which a
\* call enters the closure or ends, the closure returning or panicking,
\* leaves every DebugCallback (identifier, closure address, instance
\* reference), every closure storage, the driver's set of messengers, the
\* identifiers handed out and the native calls made as they were.
Thm_C19 ==
    [][TrampolineStep
          => /\ reg' = reg
             /\ heap' = heap
             /\ messengers' = messengers
             /\ nextHandle' = nextHandle
             /\ native' = native
             /\ \A i \in Instances : StrongCount(i)' = StrongCount(i)]_vars

\* C19's case: a call whose closure panicked has ended and its registration
\* stands as it was made: registered, its messenger live, its closure stored
\* at the address the driver holds, its instance reference held.
Wit_C19 ==
    \E r \in Regs :
        /\ lastExit.kind = "returned" /\ lastExit.panicked
        /\ lastExit.handle = native[r].created
        /\ reg[r].state = "Registered"
        /\ AddressHeld(r)
        /\ HoldsFields(r)
        /\ running = EmptyBag

=============================================================================
